---- MODULE Spec2Model ----
(***************************************************************************)
(* A model of scrape_bits.py: the UNCTAD IIA Navigator crawler.            *)
(*                                                                         *)
(* The process state is main()'s local variables and its position (pc);    *)
(* the durable state is the four files the script writes                   *)
(* (data/checkpoint.json, data/treaties_partial.csv, the output CSV and    *)
(* JSON).  The remote site is a fixed table of pages (SelectOptions,       *)
(* SidebarLinks, ProbeResponse, PageRows, DetailPage); what the network    *)
(* does to one navigation (succeed or time out) is chosen at each          *)
(* page.goto.  The process can be killed at any step (Kill) and started    *)
(* again (Start), with or without --resume.                                *)
(*                                                                         *)
(* Strings are TLA+ strings; the string functions of the code that the     *)
(* model needs (strip, lower, split(","), substring tests, the date        *)
(* regular expression) are tables over the strings the site table holds.   *)
(***************************************************************************)
EXTENDS Naturals, Sequences, FiniteSets, TLC

(***************************************************************************)
(* Bounds of the model.                                                    *)
(***************************************************************************)
\* countries the <select> of the full site lists
NumCountries == 11
\* retry_goto calls in which page.goto raises, over a whole behaviour
MaxFailedCalls == 1
\* times the process is started, over a whole behaviour
MaxRuns == 2

(***************************************************************************)
(* Program constants.                                                      *)
(***************************************************************************)
MAX_RETRIES == 3
\* range(1, 251) of strategy 3
PROBE_LAST == 250
\* len(done_ids) % 10
CHECKPOINT_EVERY == 10
\* len(cells) < 6
MIN_CELLS == 6

COLUMNS ==
  << "treaty_url", "short_title", "treaty_type", "status", "party_1", "party_2",
     "date_of_signature", "date_of_entry_into_force", "date_of_termination",
     "termination_type" >>

(***************************************************************************)
(* Generic helpers: Python dict and list idioms.                           *)
(***************************************************************************)
Range(s) == { s[k] : k \in DOMAIN s }

\* d.get(k, default)
Get(d, k, default) == IF k \in DOMAIN d THEN d[k] ELSE default

\* d[k] = v
Put(d, k, v) == [ x \in DOMAIN d \cup {k} |-> IF x = k THEN v ELSE d[x] ]

\* d.setdefault(k, v)
SetDefault(d, k, v) == IF k \in DOMAIN d THEN d ELSE Put(d, k, v)

\* sorted(done_ids)
RECURSIVE SortedSeq(_)
SortedSeq(S) ==
  IF S = {} THEN << >>
  ELSE LET m == CHOOSE a \in S : \A b \in S : a <= b
       IN  << m >> \o SortedSeq(S \ {m})

(***************************************************************************)
(* String functions, as tables over the strings of the site table.         *)
(***************************************************************************)
\* str.strip()
Strip(s) ==
  CASE s = " /treaties/1" -> "/treaties/1"
    [] s = " "            -> ""
    [] OTHER              -> s

\* str.lower()
Lower(s) ==
  CASE s = "Alpha - Beta BIT" -> "alpha - beta bit"
    [] s = "Gamma TIP"        -> "gamma tip"
    [] s = "GAMMA TIP"        -> "gamma tip"
    [] s = "Korea - Germany BIT" -> "korea - germany bit"
    [] s = "BIT"              -> "bit"
    [] s = "BITs"             -> "bits"
    [] s = "TIP"              -> "tip"
    [] s = "TIPs"             -> "tips"
    [] s = "In force"         -> "in force"
    [] s = "Terminated"       -> "terminated"
    [] s = "Delta TIP"        -> "delta tip"
    [] s = "Korea, Republic of, Germany" -> "korea, republic of, germany"
    [] OTHER                  -> s

\* "bit" in s, for a lower-cased s
ContainsBit(s) == s \in { "bit", "bits", "alpha - beta bit", "korea - germany bit" }

\* "terminat" in s, for a lower-cased s
ContainsTerminat(s) == s \in { "terminated" }

\* [p.strip() for p in s.split(",")]
SplitComma(s) ==
  CASE s = "Alpha, Beta"                -> << "Alpha", "Beta" >>
    [] s = "Korea, Republic of, Germany" -> << "Korea", "Republic of", "Germany" >>
    [] s = "Korea, Republic of"         -> << "Korea", "Republic of" >>
    [] OTHER                            -> << s >>

\* s[0].isupper(), for a non-empty s
UpperInitial(s) ==
  s \in { "Alpha", "Beta", "Korea", "Germany", "Republic of", "Solo",
          "Republic of, Germany", "Korea, Republic of" }

\* ", ".join(parts).strip(), for parts that are stripped and not empty at the ends
RECURSIVE JoinComma(_)
JoinComma(parts) ==
  IF parts = << >> THEN ""
  ELSE IF Len(parts) = 1 THEN parts[1]
  ELSE parts[1] \o ", " \o JoinComma(Tail(parts))

\* re.match(r"(\d{1,2})/(\d{1,2})/(\d{4})", raw) and the rewrite to YYYY-MM-DD
parse_date(raw0) ==
  LET raw == Strip(raw0)
  IN  CASE raw = ""           -> ""
        [] raw = "05/03/2020" -> "2020-03-05"
        [] raw = "1/2/1999"   -> "1999-02-01"
        [] raw = "31/12/2010" -> "2010-12-31"
        [] OTHER              -> raw

(***************************************************************************)
(* split_parties: the two-part case, else the last comma whose right side  *)
(* is non-empty and starts with an upper-case letter; with no such comma   *)
(* the NameError fallback returns (parties_str, "").                       *)
(***************************************************************************)
split_parties(parties_str0) ==
  LET parties_str == Strip(parties_str0)
      parts == SplitComma(parties_str)
      n     == Len(parts)
      left(k)  == JoinComma(SubSeq(parts, 1, k))
      right(k) == JoinComma(SubSeq(parts, k + 1, n))
      good  == { k \in 1 .. (n - 1) :
                   left(k) # "" /\ right(k) # "" /\ UpperInitial(right(k)) }
  IN  IF n = 2 THEN << parts[1], parts[2] >>
      ELSE IF good # {}
           THEN LET k == CHOOSE a \in good : \A b \in good : b <= a
                IN  << left(k), right(k) >>
           ELSE << parties_str, "" >>

(***************************************************************************)
(* The remote site.  A URL the pattern /countries/(\d+)/([a-z0-9-]+)       *)
(* matches is [pat |-> TRUE, digits, slug]; digits is the text of group 1. *)
(***************************************************************************)
SiteKinds == { "full", "dup", "links", "probe", "none" }

NoHref == [ pat |-> FALSE, digits |-> << >>, slug |-> "" ]

DigitsOf(k) == IF k < 10 THEN << k >> ELSE << k \div 10, k % 10 >>

CountryHref(k) == [ pat |-> TRUE, digits |-> DigitsOf(k), slug |-> "c" \o ToString(k) ]

\* int(m.group(1))
RECURSIVE IntOf(_)
IntOf(digits) ==
  IF digits = << >> THEN 0
  ELSE 10 * IntOf(SubSeq(digits, 1, Len(digits) - 1)) + digits[Len(digits)]

CountryOption(k) == [ value |-> CountryHref(k), text |-> "Country " \o ToString(k) ]

Placeholder == [ value |-> NoHref, text |-> "Select" ]

\* page.query_selector_all("select") and each one's options, on the first page
SelectOptions(kind) ==
  CASE kind = "full"  -> << << Placeholder >> \o [ k \in 1 .. NumCountries |-> CountryOption(k) ] >>
    [] kind = "dup"   -> << << CountryOption(1), CountryOption(2) >>, << CountryOption(1) >> >>
    [] kind = "links" -> << << Placeholder >> >>
    [] OTHER          -> << >>

\* page.query_selector_all("a[href*='/countries/']") on the first page
SidebarLinks(kind) ==
  CASE kind \in { "full", "dup", "links" } ->
         << [ value |-> CountryHref(2), text |-> "Country 2" ],
            [ value |-> NoHref, text |-> "All countries" ],
            [ value |-> CountryHref(3), text |-> "Country 3" ],
            [ value |-> CountryHref(2), text |-> "Country 2" ],
            [ value |-> [ pat |-> TRUE, digits |-> << 0, 2 >>, slug |-> "c2" ],
              text |-> "Country 2" ] >>
    [] OTHER -> << >>

\* page.goto(f"{COUNTRY_URL}/{cid}/x"): raises, or the response status, the final
\* URL and the text of the first h1, h2 or .page-title ("" for none)
ProbeResponse(kind, cid) ==
  CASE kind # "none" /\ cid = 5 ->
         [ raises |-> FALSE, status |-> 200, final |-> CountryHref(5), heading |-> "Five" ]
    [] kind # "none" /\ cid = 6 ->
         [ raises |-> TRUE, status |-> 0, final |-> NoHref, heading |-> "" ]
    [] kind # "none" /\ cid = 7 ->
         [ raises |-> FALSE, status |-> 200, final |-> CountryHref(7), heading |-> "" ]
    [] kind # "none" /\ cid = 8 ->
         [ raises |-> FALSE, status |-> 404, final |-> CountryHref(8), heading |-> "Not found" ]
    [] kind # "none" /\ cid = 9 ->
         [ raises |-> FALSE, status |-> 200, final |-> CountryHref(5), heading |-> "Five" ]
    [] OTHER ->
         [ raises |-> FALSE, status |-> 200, final |-> NoHref, heading |-> "Home" ]

(***************************************************************************)
(* Country pages.  A row is its <td> cells (data-index attribute or "",    *)
(* inner text) and the href of its a[href*='/treaties/'] ("" for none).    *)
(***************************************************************************)
\* the cells of a row built from its texts; marker is "none", "zero" or "one"
MkCells(texts, marker) ==
  [ k \in 1 .. Len(texts) |->
      [ idx  |-> CASE marker = "zero" -> ToString(k - 1)
                   [] marker = "one"  -> ToString(k)
                   [] OTHER           -> "",
        text |-> texts[k] ] ]

TextsA == << "1", "Alpha - Beta BIT", "BITs", "In force", "Alpha, Beta",
             "05/03/2020", "1/2/1999", "", "Full text" >>

TextsT == << "2", "Korea - Germany BIT", "BIT", "Terminated", "Korea, Republic of, Germany",
             "31/12/2010", "n/a", "31/12/2010", "Full text" >>

TextsG(title) == << "3", title, "TIPs", "In force", "Solo", "", "", "", "" >>

TextsE == << "4", "", "", "Terminated", "", "", "", "", "" >>

TextsD == << "5", "Delta TIP", "TIP", "Terminated", "Solo", "", "", "1/2/1999", "" >>

RowA(marker) == [ cells |-> MkCells(TextsA, marker), href |-> "/treaties/1" ]

RowA2 == [ cells |-> MkCells(TextsA, "none"), href |-> " /treaties/1" ]

RowT == [ cells |-> MkCells(TextsT, "none"), href |-> "/treaties/2" ]

RowG(title) == [ cells |-> MkCells(TextsG(title), "none"), href |-> "" ]

RowE == [ cells |-> MkCells(TextsE, "none"), href |-> "" ]

RowD == [ cells |-> MkCells(TextsD, "none"), href |-> "" ]

RowT0 == [ cells |-> MkCells(TextsT, "zero"), href |-> "/treaties/3" ]

RowShort == [ cells |-> MkCells(<< "Treaty", "Status" >>, "none"), href |-> "" ]

\* the page of country id: whether "table tbody tr" appears in time, and the rows
PageRows(id) ==
  CASE id = 1 -> [ table |-> TRUE, rows |-> << RowA("one"), RowT >> ]
    [] id = 2 -> [ table |-> TRUE, rows |-> << RowShort, RowA("none"), RowG("Gamma TIP") >> ]
    [] id = 3 -> [ table |-> FALSE, rows |-> << >> ]
    [] id = 4 -> [ table |-> TRUE, rows |-> << RowE, RowD >> ]
    [] id = 5 -> [ table |-> TRUE, rows |-> << RowA2 >> ]
    [] id = 6 -> [ table |-> TRUE, rows |-> << RowG("GAMMA TIP") >> ]
    [] id = 7 -> [ table |-> TRUE, rows |-> << RowT >> ]
    [] id = 8 -> [ table |-> TRUE, rows |-> << RowT0 >> ]
    [] OTHER  -> [ table |-> TRUE, rows |-> << RowShort >> ]

\* a treaty detail page: the value of the "termination type" form group, and the
\* text after "Type of termination" anywhere on the page ("" for none)
DetailPage(url) ==
  CASE url = "/treaties/2" -> [ form_value |-> "Unilaterally denounced", scan_text |-> "" ]
    [] OTHER               -> [ form_value |-> "", scan_text |-> "" ]

(***************************************************************************)
(* scrape_country_treaties: one row to one treaty dict.                    *)
(***************************************************************************)
\* cell_map: the last text of each non-empty data-index
CellMap(cells) ==
  LET keys == { cells[k].idx : k \in DOMAIN cells } \ { "" }
  IN  [ key \in keys |->
          LET last == CHOOSE k \in DOMAIN cells :
                        /\ cells[k].idx = key
                        /\ \A j \in DOMAIN cells : cells[j].idx = key => j <= k
          IN  cells[last].text ]

\* the fields read through cell_map
IndexedFields(cell_map) ==
  [ short_title              |-> Get(cell_map, "2", Get(cell_map, "1", "")),
    treaty_type              |-> Get(cell_map, "3", Get(cell_map, "2", "")),
    status                   |-> Get(cell_map, "4", Get(cell_map, "3", "")),
    parties_raw              |-> Get(cell_map, "5", Get(cell_map, "4", "")),
    date_of_signature        |-> Get(cell_map, "6", Get(cell_map, "5", "")),
    date_of_entry_into_force |-> Get(cell_map, "7", Get(cell_map, "6", "")),
    date_of_termination      |-> Get(cell_map, "8", Get(cell_map, "7", "")) ]

\* the fields read by position
PositionalFields(cells) ==
  LET texts == [ k \in DOMAIN cells |-> cells[k].text ]
      at(k) == IF Len(texts) > k THEN texts[k + 1] ELSE ""
  IN  [ short_title              |-> at(1),
        treaty_type              |-> at(2),
        status                   |-> at(3),
        parties_raw              |-> at(4),
        date_of_signature        |-> at(5),
        date_of_entry_into_force |-> at(6),
        date_of_termination      |-> at(7) ]

\* the type label: "BIT" if it contains "bit", else "TIP" if not empty
NormalizeType(label) ==
  LET ttype == Lower(Strip(label))
  IN  IF ContainsBit(ttype) THEN "BIT" ELSE IF ttype # "" THEN "TIP" ELSE label

ExtractRow(row, country) ==
  LET cell_map == CellMap(row.cells)
      f == IF DOMAIN cell_map # {} THEN IndexedFields(cell_map)
           ELSE PositionalFields(row.cells)
  IN  [ treaty_url               |-> row.href,
        short_title              |-> f.short_title,
        treaty_type              |-> NormalizeType(f.treaty_type),
        status                   |-> f.status,
        parties_raw              |-> f.parties_raw,
        date_of_signature        |-> f.date_of_signature,
        date_of_entry_into_force |-> f.date_of_entry_into_force,
        date_of_termination      |-> f.date_of_termination,
        source_country_id        |-> country.id,
        source_country           |-> country.name ]

\* the treaties of one page: rows with fewer than 6 cells are skipped
RECURSIVE ExtractRows(_, _)
ExtractRows(rows, country) ==
  IF rows = << >> THEN << >>
  ELSE (IF Len(Head(rows).cells) < MIN_CELLS THEN << >>
        ELSE << ExtractRow(Head(rows), country) >>)
       \o ExtractRows(Tail(rows), country)

\* scrape_country_treaties once the navigation has succeeded
PageTreaties(country) ==
  LET page == PageRows(country.id)
  IN  IF ~page.table THEN << >> ELSE ExtractRows(page.rows, country)

(***************************************************************************)
(* deduplicate: the first treaty of each non-empty key, in first-seen      *)
(* order.                                                                  *)
(***************************************************************************)
\* the key of a treaty: its stripped URL, else its stripped lower-cased title
KeyOf(t) ==
  LET key == Strip(Get(t, "treaty_url", ""))
  IN  IF key # "" THEN key ELSE Lower(Strip(Get(t, "short_title", "")))

\* DedupFrom that drops nothing
DedupFromKeepAll(treaties, seen_keys, kept) == kept \o treaties

\* DedupFrom that stops dropping after the first treaty with a seen key
RECURSIVE DedupFromFirstRepeat(_, _, _)
DedupFromFirstRepeat(treaties, seen_keys, kept) ==
  IF treaties = << >> THEN kept
  ELSE LET t   == Head(treaties)
           key == KeyOf(t)
       IN  IF key = "" THEN DedupFromFirstRepeat(Tail(treaties), seen_keys, kept)
           ELSE IF key \in seen_keys THEN kept \o Tail(treaties)
           ELSE DedupFromFirstRepeat(Tail(treaties), seen_keys \cup {key}, Append(kept, t))

\* DedupFrom where a later treaty with a seen key replaces the retained one
RECURSIVE DedupFromLastWins(_, _, _)
DedupFromLastWins(treaties, seen_keys, kept) ==
  IF treaties = << >> THEN kept
  ELSE LET t   == Head(treaties)
           key == KeyOf(t)
       IN  IF key = "" THEN DedupFromLastWins(Tail(treaties), seen_keys, kept)
           ELSE IF key \in seen_keys
           THEN DedupFromLastWins(Tail(treaties), seen_keys,
                  [ k \in DOMAIN kept |-> IF KeyOf(kept[k]) = key THEN t ELSE kept[k] ])
           ELSE DedupFromLastWins(Tail(treaties), seen_keys \cup {key}, Append(kept, t))

RECURSIVE DedupFrom(_, _, _)
DedupFrom(treaties, seen_keys, kept) ==
  IF treaties = << >> THEN kept
  ELSE LET t   == Head(treaties)
           key == KeyOf(t)
       IN  IF key = "" \/ key \in seen_keys
           THEN DedupFrom(Tail(treaties), seen_keys, kept)
           ELSE DedupFrom(Tail(treaties), seen_keys \cup {key}, Append(kept, t))

deduplicate(treaties) == DedupFrom(treaties, {}, << >>)

(***************************************************************************)
(* The CSV files: csv.DictWriter(fieldnames=COLUMNS, extrasaction="ignore")*)
(* writes the COLUMNS of each dict, "" for a missing one, and drops every  *)
(* other key; csv.DictReader gives each row back as a dict of COLUMNS.     *)
(***************************************************************************)
CsvRow(t) == [ k \in Range(COLUMNS) |-> Get(t, k, "") ]

CsvRows(treaties) == [ k \in DOMAIN treaties |-> CsvRow(treaties[k]) ]

\* _write_csv's data
WriteCsvData(treaties, dedupe) ==
  CsvRows(IF dedupe THEN deduplicate(treaties) ELSE treaties)

(***************************************************************************)
(* Steps 4 and 5 of main, per treaty.                                      *)
(***************************************************************************)
\* Step 4: parse parties and dates
Normalize(t) ==
  LET p  == split_parties(Get(t, "parties_raw", ""))
      t1 == Put(t, "party_1", p[1])
      t2 == Put(t1, "party_2", p[2])
      t3 == Put(t2, "date_of_signature", parse_date(Get(t, "date_of_signature", "")))
      t4 == Put(t3, "date_of_entry_into_force",
                parse_date(Get(t, "date_of_entry_into_force", "")))
      t5 == Put(t4, "date_of_termination", parse_date(Get(t, "date_of_termination", "")))
  IN  SetDefault(t5, "termination_type", "")

NormalizeAll(treaties) == [ k \in DOMAIN treaties |-> Normalize(treaties[k]) ]

\* Step 5: the positions in unique of the treaties whose status holds "terminat"
RECURSIVE TerminatedFrom(_, _)
TerminatedFrom(treaties, k) ==
  IF k > Len(treaties) THEN << >>
  ELSE (IF ContainsTerminat(Lower(Get(treaties[k], "status", ""))) THEN << k >> ELSE << >>)
       \o TerminatedFrom(treaties, k + 1)

Terminated(treaties) == TerminatedFrom(treaties, 1)

\* scrape_termination_type once the navigation has succeeded
TerminationTypeOf(treaty_url) ==
  LET page == DetailPage(treaty_url)
  IN  IF page.form_value # "" THEN page.form_value ELSE page.scan_text

\* Step 6: the rows of the JSON export
JsonExport(treaties) == CsvRows(treaties)

(***************************************************************************)
(* Files.  A file is absent, empty (open(path, "w") has truncated it and   *)
(* the buffered content is not yet flushed) or full.                       *)
(***************************************************************************)
AbsentCheckpoint == [ state |-> "absent", done_country_ids |-> << >>, treaty_count |-> 0 ]

EmptyCheckpoint == [ state |-> "empty", done_country_ids |-> << >>, treaty_count |-> 0 ]

AbsentCsv == [ state |-> "absent", rows |-> << >> ]

EmptyCsv == [ state |-> "empty", rows |-> << >> ]

\* json.dump({"done_country_ids": done_ids, "treaty_count": len(treaties)}, f)
CheckpointJson(done_list, treaties) ==
  [ state |-> "full", done_country_ids |-> done_list, treaty_count |-> Len(treaties) ]

\* PartialCsv with _write_csv's default dedupe=True
PartialCsvDeduped(treaties) == [ state |-> "full", rows |-> WriteCsvData(treaties, TRUE) ]

\* _write_csv(treaties, DATA_DIR / "treaties_partial.csv", dedupe=False)
PartialCsv(treaties) == [ state |-> "full", rows |-> WriteCsvData(treaties, FALSE) ]

\* load_checkpoint: raises on a checkpoint.json that does not parse, else the
\* id set and the rows of treaties_partial.csv
load_checkpoint(ckpt, partial) ==
  CASE ckpt.state = "absent" -> [ raises |-> FALSE, done |-> {}, treaties |-> << >> ]
    [] ckpt.state = "empty"  -> [ raises |-> TRUE, done |-> {}, treaties |-> << >> ]
    [] OTHER -> [ raises   |-> FALSE,
                  done     |-> Range(ckpt.done_country_ids),
                  treaties |-> IF partial.state = "full" THEN partial.rows ELSE << >> ]

(***************************************************************************)
(* get_country_list: the three strategies.                                 *)
(***************************************************************************)
CountryOf(href, name) == [ id |-> IntOf(href.digits), slug |-> href.slug, name |-> name ]

RECURSIVE OptionCountries(_)
OptionCountries(options) ==
  IF options = << >> THEN << >>
  ELSE (IF Head(options).value.pat
        THEN << CountryOf(Head(options).value, Head(options).text) >>
        ELSE << >>)
       \o OptionCountries(Tail(options))

\* Strategy 1: every option of every <select> whose value matches the pattern
RECURSIVE Strategy1(_)
Strategy1(selects) ==
  IF selects = << >> THEN << >>
  ELSE OptionCountries(Head(selects)) \o Strategy1(Tail(selects))

\* Strategy 2: every link that matches the pattern and whose id text is new
RECURSIVE Strategy2From(_, _)
Strategy2From(links, seen) ==
  IF links = << >> THEN << >>
  ELSE LET href == Head(links).value
       IN  IF href.pat /\ href.digits \notin seen
           THEN << CountryOf(href, Head(links).text) >>
                \o Strategy2From(Tail(links), seen \cup { href.digits })
           ELSE Strategy2From(Tail(links), seen)

Strategy2(links) == Strategy2From(links, {})

\* Strategy 3, one candidate: the countries it adds
ProbeFound(resp) ==
  IF ~resp.raises /\ resp.final.pat /\ resp.status < 400
  THEN << CountryOf(resp.final, IF resp.heading # "" THEN resp.heading ELSE resp.final.slug) >>
  ELSE << >>

\* Strategy 3 over the candidates first .. last, in ascending order
RECURSIVE ProbeRange(_, _, _)
ProbeRange(kind, first, last) ==
  IF first > last THEN << >>
  ELSE IF first = last THEN ProbeFound(ProbeResponse(kind, first))
  ELSE LET mid == (first + last) \div 2
       IN  ProbeRange(kind, first, mid) \o ProbeRange(kind, mid + 1, last)

\* Strategy 3: the countries found among the candidates 1 .. last
Strategy3(kind, last) == ProbeRange(kind, 1, last)

\* countries[: args.max_countries], for args.max_countries >= 0
Limit(list, max) ==
  IF max # 0 THEN SubSeq(list, 1, IF max < Len(list) THEN max ELSE Len(list)) ELSE list

\* 2 ** attempt
RECURSIVE Pow2(_)
Pow2(k) == IF k = 0 THEN 1 ELSE 2 * Pow2(k - 1)

\* BackoffWait with the exponent one too small
BackoffWaitFromOne(k) == Pow2(k - 1)

\* wait = 2 ** attempt
BackoffWait(k) == Pow2(k)

(***************************************************************************)
(* State.                                                                  *)
(***************************************************************************)
VARIABLES
  site,             \* which site table the network serves
  checkpoint_file,  \* data/checkpoint.json
  partial_file,     \* data/treaties_partial.csv
  out_csv,          \* args.output
  out_json,         \* args.output with suffix .json
  pc,               \* the position in main, or off, killed, crashed, aborted, done
  exit_code,        \* the exit status of the last run that ended by itself
  run,              \* how many times the process has been started
  resume,           \* args.resume
  max_countries,    \* args.max_countries
  countries,        \* main's countries
  cid,              \* strategy 3's candidate id
  done_ids,         \* main's done_ids
  all_treaties,     \* main's all_treaties
  i,                \* the anchor loop's position in countries
  caller,           \* who called retry_goto: discover, country or detail
  attempt,          \* retry_goto's attempt
  save_return,      \* where save_checkpoint returns to
  unique,           \* main's unique
  terminated,       \* main's terminated, as positions in unique
  j,                \* the enrichment loop's position in terminated
  \* history, read by no action's guard except the bound on failed_calls
  waits,            \* the sleeps of the current retry_goto call
  goto_outcome,     \* how the last retry_goto call ended: none, ok, raised
  nav_log,          \* the ids scrape_country_treaties was called for, this run
  appended_log,     \* the ids whose treaties were appended, this run
  resumed_from,     \* what load_checkpoint gave this run: the done ids, and whether
                    \* the files were those of a save_checkpoint call that returned
  failed_calls,     \* retry_goto calls in which page.goto raised
  last_saved,       \* what the last save_checkpoint call that returned was given
  committed         \* whether a save_checkpoint call returned with no deletion since

files == << checkpoint_file, partial_file, out_csv, out_json >>

args == << resume, max_countries >>

crawl == << countries, cid, done_ids, all_treaties, i >>

post == << unique, terminated, j >>

retry == << caller, attempt, waits, goto_outcome >>

history == << nav_log, appended_log, resumed_from, last_saved, committed >>

vars == << site, files, pc, exit_code, run, args, crawl, save_return, post, retry,
           history, failed_calls >>

NoSave == [ valid |-> FALSE, done |-> {}, treaties |-> << >> ]

NotResumed == [ ids |-> {}, saved |-> FALSE ]

\* main's locals before main has run
Fresh ==
  /\ countries = << >> /\ cid = 0 /\ done_ids = {} /\ all_treaties = << >> /\ i = 0
  /\ caller = "none" /\ attempt = 0 /\ save_return = "none"
  /\ unique = << >> /\ terminated = << >> /\ j = 0
  /\ waits = << >> /\ goto_outcome = "none"
  /\ nav_log = << >> /\ appended_log = << >> /\ resumed_from = NotResumed

Init ==
  /\ site \in SiteKinds
  /\ checkpoint_file = AbsentCheckpoint /\ partial_file = AbsentCsv
  /\ out_csv = AbsentCsv /\ out_json = AbsentCsv
  /\ pc = "off" /\ exit_code = 0 /\ run = 0
  /\ resume = FALSE /\ max_countries = 0
  /\ Fresh
  /\ failed_calls = 0 /\ last_saved = NoSave /\ committed = FALSE

Running == pc \notin { "off", "killed", "crashed", "aborted", "done" }

\* main's locals as a new process finds them
Wipe ==
  /\ countries' = << >> /\ cid' = 0 /\ done_ids' = {} /\ all_treaties' = << >> /\ i' = 0
  /\ caller' = "none" /\ attempt' = 0 /\ save_return' = "none"
  /\ unique' = << >> /\ terminated' = << >> /\ j' = 0
  /\ waits' = << >> /\ goto_outcome' = "none"
  /\ nav_log' = << >> /\ appended_log' = << >> /\ resumed_from' = NotResumed

\* a call of retry_goto
CallRetryGoto(who) ==
  /\ pc' = "retry_goto"
  /\ caller' = who /\ attempt' = 1 /\ waits' = << >> /\ goto_outcome' = "none"

(***************************************************************************)
(* The process starts and stops.                                           *)
(***************************************************************************)
\* python scrape_bits.py [--max-countries m] [--resume]; the script is started
\* again with the --max-countries of its first start
Start(r, m) ==
  /\ pc \in { "off", "killed", "crashed" }
  /\ run < MaxRuns
  /\ run > 0 => m = max_countries
  /\ run' = run + 1
  /\ resume' = r /\ max_countries' = m
  /\ exit_code' = 0
  /\ countries' = << >> /\ cid' = 0 /\ done_ids' = {} /\ all_treaties' = << >> /\ i' = 0
  /\ save_return' = "none"
  /\ unique' = << >> /\ terminated' = << >> /\ j' = 0
  /\ nav_log' = << >> /\ appended_log' = << >> /\ resumed_from' = NotResumed
  /\ IF r
     THEN /\ pc' = "load_checkpoint"
          /\ caller' = "none" /\ attempt' = 0 /\ waits' = << >> /\ goto_outcome' = "none"
     ELSE CallRetryGoto("discover")
  /\ UNCHANGED << site, files, failed_calls, last_saved, committed >>

\* the process is killed (SIGKILL, power loss): the files stay as they are
Kill ==
  /\ Running
  /\ pc' = "killed"
  /\ Wipe
  /\ UNCHANGED << site, files, exit_code, run, args, failed_calls, last_saved,
                  committed >>

(***************************************************************************)
(* load_checkpoint, called by main when args.resume.                       *)
(***************************************************************************)
LoadCheckpoint ==
  /\ pc = "load_checkpoint"
  /\ LET loaded == load_checkpoint(checkpoint_file, partial_file)
     IN  /\ ~loaded.raises
         /\ done_ids' = loaded.done
         /\ all_treaties' = loaded.treaties
         /\ resumed_from' = [ ids |-> loaded.done, saved |-> last_saved.valid ]
  /\ CallRetryGoto("discover")
  /\ UNCHANGED << site, files, exit_code, run, args, countries, cid, i, save_return, post,
                  nav_log, appended_log, last_saved, committed, failed_calls >>

\* json.load raises on a truncated checkpoint.json; nothing catches it
LoadCheckpointRaises ==
  /\ pc = "load_checkpoint"
  /\ load_checkpoint(checkpoint_file, partial_file).raises
  /\ pc' = "crashed" /\ exit_code' = 1
  /\ UNCHANGED << site, files, run, args, crawl, save_return, post, retry, history,
                  failed_calls >>

(***************************************************************************)
(* retry_goto: one page.goto per step.                                     *)
(***************************************************************************)
\* where retry_goto's caller goes on when the call returns
AfterGoto(who) ==
  CASE who = "discover" -> "strategy1"
    [] who = "country"  -> "extract"
    [] OTHER            -> "detail_parse"

\* page.goto succeeds: return
RetryGotoOk ==
  /\ pc = "retry_goto"
  /\ goto_outcome' = "ok"
  /\ pc' = AfterGoto(caller)
  /\ UNCHANGED << site, files, exit_code, run, args, crawl, save_return, post,
                  caller, attempt, waits, history, failed_calls >>

\* page.goto raises and attempts are left: warn, sleep 2 ** attempt, try again;
\* the first failure of a call counts against MaxFailedCalls
RetryGotoFail ==
  /\ pc = "retry_goto"
  /\ attempt # MAX_RETRIES
  /\ attempt = 1 => failed_calls < MaxFailedCalls
  /\ failed_calls' = IF attempt = 1 THEN failed_calls + 1 ELSE failed_calls
  /\ waits' = Append(waits, BackoffWait(attempt))
  /\ attempt' = attempt + 1
  /\ UNCHANGED << site, files, pc, exit_code, run, args, crawl, save_return, post,
                  caller, goto_outcome, history >>

\* page.goto raises on the last attempt: retry_goto raises
RetryGotoRaises ==
  /\ pc = "retry_goto"
  /\ attempt = MAX_RETRIES
  /\ goto_outcome' = "raised"
  /\ pc' = "goto_raised"
  /\ UNCHANGED << site, files, exit_code, run, args, crawl, save_return, post,
                  caller, attempt, waits, history, failed_calls >>

\* get_country_list's first navigation raised: nothing catches it
DiscoverFailed ==
  /\ pc = "goto_raised" /\ caller = "discover"
  /\ pc' = "crashed" /\ exit_code' = 1
  /\ UNCHANGED << site, files, run, args, crawl, save_return, post, retry, history,
                  failed_calls >>

(***************************************************************************)
(* get_country_list after its first navigation.                            *)
(***************************************************************************)
\* Strategy1Step without the early return
Strategy1StepNoReturn ==
  /\ pc = "strategy1"
  /\ countries' = countries \o Strategy1(SelectOptions(site))
  /\ pc' = "strategy2"
  /\ UNCHANGED << site, files, exit_code, run, args, cid, done_ids, all_treaties, i,
                  save_return, post, retry, history, failed_calls >>

Strategy1Step ==
  /\ pc = "strategy1"
  /\ countries' = countries \o Strategy1(SelectOptions(site))
  /\ pc' = IF countries' # << >> THEN "discovered" ELSE "strategy2"
  /\ UNCHANGED << site, files, exit_code, run, args, cid, done_ids, all_treaties, i,
                  save_return, post, retry, history, failed_calls >>

Strategy2Step ==
  /\ pc = "strategy2"
  /\ countries' = countries \o Strategy2(SidebarLinks(site))
  /\ IF countries' # << >>
     THEN pc' = "discovered" /\ cid' = cid
     ELSE pc' = "strategy3" /\ cid' = 1
  /\ UNCHANGED << site, files, exit_code, run, args, done_ids, all_treaties, i,
                  save_return, post, retry, history, failed_calls >>

\* the brute-force loop over range(1, 251); a page.goto that raises is skipped
Strategy3Step ==
  /\ pc = "strategy3"
  /\ countries' = countries \o Strategy3(site, PROBE_LAST)
  /\ cid' = PROBE_LAST
  /\ pc' = "discovered"
  /\ UNCHANGED << site, files, exit_code, run, args, done_ids, all_treaties, i,
                  save_return, post, retry, history, failed_calls >>

\* DiscoveryAbort without the sys.exit: main goes on with no countries
DiscoveryNoAbort ==
  /\ pc = "discovered"
  /\ countries = << >>
  /\ i' = 1
  /\ pc' = "loop"
  /\ UNCHANGED << site, files, exit_code, run, args, countries, cid, done_ids,
                  all_treaties, save_return, post, retry, history, failed_calls >>

\* if not countries: sys.exit(1)
DiscoveryAbort ==
  /\ pc = "discovered"
  /\ countries = << >>
  /\ pc' = "aborted" /\ exit_code' = 1
  /\ UNCHANGED << site, files, run, args, crawl, save_return, post, retry, history,
                  failed_calls >>

\* countries = countries[: args.max_countries]; the anchor loop begins
BeginCrawl ==
  /\ pc = "discovered"
  /\ countries # << >>
  /\ countries' = Limit(countries, max_countries)
  /\ i' = 1
  /\ pc' = "loop"
  /\ UNCHANGED << site, files, exit_code, run, args, cid, done_ids, all_treaties,
                  save_return, post, retry, history, failed_calls >>

(***************************************************************************)
(* Step 2 of main: the anchor loop.                                        *)
(***************************************************************************)
\* AlreadyDone with the test left out
AlreadyDoneNever == FALSE

\* country["id"] in done_ids
AlreadyDone == countries[i].id \in done_ids

\* if country["id"] in done_ids: continue
LoopSkip ==
  /\ pc = "loop"
  /\ i <= Len(countries)
  /\ AlreadyDone
  /\ i' = i + 1
  /\ UNCHANGED << site, files, pc, exit_code, run, args, countries, cid, done_ids,
                  all_treaties, save_return, post, retry, history, failed_calls >>

\* scrape_country_treaties is called: its retry_goto begins
LoopScrape ==
  /\ pc = "loop"
  /\ i <= Len(countries)
  /\ ~AlreadyDone
  /\ nav_log' = Append(nav_log, countries[i].id)
  /\ CallRetryGoto("country")
  /\ UNCHANGED << site, files, exit_code, run, args, crawl, save_return, post,
                  appended_log, resumed_from, last_saved, committed, failed_calls >>

\* scrape_country_treaties returns: all_treaties.extend, done_ids.add
ScrapeOk ==
  /\ pc = "extract"
  /\ all_treaties' = all_treaties \o PageTreaties(countries[i])
  /\ done_ids' = done_ids \cup { countries[i].id }
  /\ appended_log' = Append(appended_log, countries[i].id)
  /\ pc' = "cadence"
  /\ UNCHANGED << site, files, exit_code, run, args, countries, cid, i, save_return, post,
                  retry, nav_log, resumed_from, last_saved, committed, failed_calls >>

\* ScrapeFailed without the try/except: the exception leaves main
ScrapeFailedUncaught ==
  /\ pc = "goto_raised" /\ caller = "country"
  /\ pc' = "crashed" /\ exit_code' = 1
  /\ UNCHANGED << site, files, run, args, crawl, save_return, post, retry, history,
                  failed_calls >>

\* ScrapeFailed followed by done_ids.add: the failed country counts as done
ScrapeFailedMarksDone ==
  /\ pc = "goto_raised" /\ caller = "country"
  /\ done_ids' = done_ids \cup { countries[i].id }
  /\ pc' = "cadence"
  /\ UNCHANGED << site, files, exit_code, run, args, countries, cid, all_treaties, i,
                  save_return, post, retry, history, failed_calls >>

\* except Exception: log.error
ScrapeFailed ==
  /\ pc = "goto_raised" /\ caller = "country"
  /\ pc' = "cadence"
  /\ UNCHANGED << site, files, exit_code, run, args, crawl, save_return, post, retry,
                  history, failed_calls >>

\* if len(done_ids) % 10 == 0: save_checkpoint(sorted(done_ids), all_treaties)
CadenceDue == Cardinality(done_ids) % CHECKPOINT_EVERY = 0

Cadence ==
  /\ pc = "cadence"
  /\ IF CadenceDue
     THEN pc' = "save_open_json" /\ save_return' = "sleep"
     ELSE pc' = "sleep" /\ save_return' = save_return
  /\ UNCHANGED << site, files, exit_code, run, args, crawl, post, retry, history,
                  failed_calls >>

\* await asyncio.sleep(DELAY_COUNTRY); the next country
Sleep ==
  /\ pc = "sleep"
  /\ i' = i + 1
  /\ pc' = "loop"
  /\ waits' = << >> /\ goto_outcome' = "none"
  /\ UNCHANGED << site, files, exit_code, run, args, countries, cid, done_ids,
                  all_treaties, save_return, post, caller, attempt, history, failed_calls >>

\* the loop is over: save_checkpoint(sorted(done_ids), all_treaties)
LoopEnd ==
  /\ pc = "loop"
  /\ i > Len(countries)
  /\ pc' = "save_open_json" /\ save_return' = "dedupe"
  /\ UNCHANGED << site, files, exit_code, run, args, crawl, post, retry, history,
                  failed_calls >>

(***************************************************************************)
(* save_checkpoint: each open(path, "w") truncates, each with-block's end  *)
(* flushes.                                                                *)
(***************************************************************************)
SaveOpenJson ==
  /\ pc = "save_open_json"
  /\ checkpoint_file' = EmptyCheckpoint
  /\ last_saved' = NoSave
  /\ pc' = "save_dump_json"
  /\ UNCHANGED << site, partial_file, out_csv, out_json, exit_code, run, args, crawl,
                  save_return, post, retry, nav_log, appended_log, resumed_from, committed,
                  failed_calls >>

SaveDumpJson ==
  /\ pc = "save_dump_json"
  /\ checkpoint_file' = CheckpointJson(SortedSeq(done_ids), all_treaties)
  /\ pc' = "save_open_csv"
  /\ UNCHANGED << site, partial_file, out_csv, out_json, exit_code, run, args, crawl,
                  save_return, post, retry, history, failed_calls >>

SaveOpenCsv ==
  /\ pc = "save_open_csv"
  /\ partial_file' = EmptyCsv
  /\ pc' = "save_write_csv"
  /\ UNCHANGED << site, checkpoint_file, out_csv, out_json, exit_code, run, args, crawl,
                  save_return, post, retry, history, failed_calls >>

SaveWriteCsv ==
  /\ pc = "save_write_csv"
  /\ partial_file' = PartialCsv(all_treaties)
  /\ last_saved' = [ valid |-> TRUE, done |-> done_ids, treaties |-> all_treaties ]
  /\ committed' = TRUE
  /\ pc' = save_return
  /\ UNCHANGED << site, checkpoint_file, out_csv, out_json, exit_code, run, args, crawl,
                  save_return, post, retry, nav_log, appended_log, resumed_from, failed_calls >>

(***************************************************************************)
(* Steps 3 to 5 of main: de-duplicate, normalise, fetch termination types. *)
(***************************************************************************)
\* PostProcess without the de-duplication of Step 3
PostProcessNoDedup ==
  /\ pc = "dedupe"
  /\ unique' = NormalizeAll(all_treaties)
  /\ terminated' = Terminated(unique')
  /\ j' = 1
  /\ pc' = "enrich"
  /\ UNCHANGED << site, files, exit_code, run, args, crawl, save_return, retry, history,
                  failed_calls >>

PostProcess ==
  /\ pc = "dedupe"
  /\ unique' = NormalizeAll(deduplicate(all_treaties))
  /\ terminated' = Terminated(unique')
  /\ j' = 1
  /\ pc' = "enrich"
  /\ UNCHANGED << site, files, exit_code, run, args, crawl, save_return, retry, history,
                  failed_calls >>

\* the treaty_url of the terminated treaty the enrichment loop is at
DetailUrl == Get(unique[terminated[j]], "treaty_url", "")

\* t["termination_type"] = value, for the treaty the enrichment loop is at
SetTerminationType(value) ==
  [ unique EXCEPT ![terminated[j]] = Put(@, "termination_type", value) ]

\* if not treaty_url: continue
EnrichSkip ==
  /\ pc = "enrich"
  /\ j <= Len(terminated)
  /\ DetailUrl = ""
  /\ j' = j + 1
  /\ UNCHANGED << site, files, pc, exit_code, run, args, crawl, save_return, unique,
                  terminated, retry, history, failed_calls >>

\* scrape_termination_type is called: its retry_goto begins
EnrichFetch ==
  /\ pc = "enrich"
  /\ j <= Len(terminated)
  /\ DetailUrl # ""
  /\ CallRetryGoto("detail")
  /\ UNCHANGED << site, files, exit_code, run, args, crawl, save_return, post, history,
                  failed_calls >>

\* the detail page loaded: the termination type it shows, or ""
DetailParse ==
  /\ pc = "detail_parse"
  /\ unique' = SetTerminationType(TerminationTypeOf(DetailUrl))
  /\ j' = j + 1
  /\ pc' = "enrich"
  /\ UNCHANGED << site, files, exit_code, run, args, crawl, save_return, terminated, retry,
                  history, failed_calls >>

\* a Playwright call of lines 277-287 (query_selector_all, query_selector,
\* inner_text) raises: no try encloses them, and none encloses line 491 of main
DetailParseRaises ==
  /\ pc = "detail_parse"
  /\ pc' = "crashed" /\ exit_code' = 1
  /\ UNCHANGED << site, files, run, args, crawl, save_return, post, retry, history,
                  failed_calls >>

\* except Exception in scrape_termination_type: return ""
DetailFailed ==
  /\ pc = "goto_raised" /\ caller = "detail"
  /\ unique' = SetTerminationType("")
  /\ j' = j + 1
  /\ pc' = "enrich"
  /\ UNCHANGED << site, files, exit_code, run, args, crawl, save_return, terminated, retry,
                  history, failed_calls >>

EnrichEnd ==
  /\ pc = "enrich"
  /\ j > Len(terminated)
  /\ pc' = "export_csv"
  /\ UNCHANGED << site, files, exit_code, run, args, crawl, save_return, post, retry,
                  history, failed_calls >>

(***************************************************************************)
(* Step 6 of main: export, then delete the checkpoint.                     *)
(***************************************************************************)
\* _write_csv(unique, output_path)
ExportCsv ==
  /\ pc = "export_csv"
  /\ out_csv' = [ state |-> "full", rows |-> WriteCsvData(unique, TRUE) ]
  /\ pc' = "export_json"
  /\ UNCHANGED << site, checkpoint_file, partial_file, out_json, exit_code, run, args,
                  crawl, save_return, post, retry, history, failed_calls >>

ExportJson ==
  /\ pc = "export_json"
  /\ out_json' = [ state |-> "full", rows |-> JsonExport(unique) ]
  /\ pc' = "unlink_checkpoint"
  /\ UNCHANGED << site, checkpoint_file, partial_file, out_csv, exit_code, run, args,
                  crawl, save_return, post, retry, history, failed_calls >>

\* if CHECKPOINT_FILE.exists(): CHECKPOINT_FILE.unlink()
UnlinkCheckpoint ==
  /\ pc = "unlink_checkpoint"
  /\ checkpoint_file' = AbsentCheckpoint
  /\ last_saved' = NoSave
  /\ committed' = FALSE
  /\ pc' = "unlink_partial"
  /\ UNCHANGED << site, partial_file, out_csv, out_json, exit_code, run, args, crawl,
                  save_return, post, retry, nav_log, appended_log, resumed_from, failed_calls >>

\* if partial.exists(): partial.unlink(); the browser closes; "Done."
UnlinkPartial ==
  /\ pc = "unlink_partial"
  /\ partial_file' = AbsentCsv
  /\ pc' = "done" /\ exit_code' = 0
  /\ UNCHANGED << site, checkpoint_file, out_csv, out_json, run, args, crawl,
                  save_return, post, retry, history, failed_calls >>

(***************************************************************************)
(* The specification.                                                      *)
(***************************************************************************)
\* the values of --max-countries the model starts the process with
MaxCountriesArgs == { 0, 2 }

Next ==
  \/ \E r \in BOOLEAN, m \in MaxCountriesArgs : Start(r, m)
  \/ Kill
  \/ LoadCheckpoint
  \/ LoadCheckpointRaises
  \/ RetryGotoOk
  \/ RetryGotoFail
  \/ RetryGotoRaises
  \/ DiscoverFailed
  \/ Strategy1Step
  \/ Strategy2Step
  \/ Strategy3Step
  \/ DiscoveryAbort
  \/ BeginCrawl
  \/ LoopSkip
  \/ LoopScrape
  \/ ScrapeOk
  \/ ScrapeFailed
  \/ Cadence
  \/ Sleep
  \/ LoopEnd
  \/ SaveOpenJson
  \/ SaveDumpJson
  \/ SaveOpenCsv
  \/ SaveWriteCsv
  \/ PostProcess
  \/ EnrichSkip
  \/ EnrichFetch
  \/ DetailParse
  \/ DetailParseRaises
  \/ DetailFailed
  \/ EnrichEnd
  \/ ExportCsv
  \/ ExportJson
  \/ UnlinkCheckpoint
  \/ UnlinkPartial

Spec == Init /\ [][Next]_vars

(***************************************************************************)
(* What the files hold, as a later process would observe them.             *)
(***************************************************************************)
\* the ids checkpoint.json records as done
PersistedIds ==
  IF checkpoint_file.state = "full" THEN Range(checkpoint_file.done_country_ids) ELSE {}

\* the rows treaties_partial.csv holds
PersistedRows == IF partial_file.state = "full" THEN partial_file.rows ELSE << >>

\* the rows the page of country id contributes to treaties_partial.csv
AnchorRows(id) == CsvRows(PageTreaties([ id |-> id, slug |-> "", name |-> "" ]))

\* how many times row r occurs in rows
RowCount(rows, r) == Cardinality({ k \in DOMAIN rows : rows[k] = r })

\* how many times row r occurs on the pages of the countries in ids
RECURSIVE AnchorRowCount(_, _)
AnchorRowCount(ids, r) ==
  IF ids = {} THEN 0
  ELSE LET id == CHOOSE a \in ids : TRUE
       IN  RowCount(AnchorRows(id), r) + AnchorRowCount(ids \ {id}, r)

\* every row any country page of the model's sites can contribute
AllAnchorRows == UNION { Range(AnchorRows(id)) : id \in 1 .. (NumCountries + 1) }

(***************************************************************************)
(* C1.  Checkpoint consistency: whenever the files are observed, the ids   *)
(* that checkpoint.json records as done are exactly the anchors whose rows *)
(* treaties_partial.csv holds: each row occurs in the item file as often   *)
(* as it occurs on the pages of the anchors recorded as done.  It fails: a *)
(* process killed inside save_checkpoint leaves the new id list beside the *)
(* old (or no) item file.                                                  *)
(***************************************************************************)
C1_CheckpointConsistent ==
  \A r \in AllAnchorRows \cup Range(PersistedRows) :
    RowCount(PersistedRows, r) = AnchorRowCount(PersistedIds, r)

(***************************************************************************)
(* Positions of main.                                                      *)
(***************************************************************************)
SavePcs == { "save_open_json", "save_dump_json", "save_open_csv", "save_write_csv" }

\* inside the anchor loop (Step 2), its cadence saves included
InAnchorLoop ==
  \/ pc \in { "loop", "extract", "cadence", "sleep" }
  \/ pc \in { "retry_goto", "goto_raised" } /\ caller = "country"
  \/ pc \in SavePcs /\ save_return = "sleep"

\* after the anchor loop: the final save, Steps 3 to 6, Done
AfterAnchorLoop ==
  \/ pc \in { "dedupe", "enrich", "detail_parse", "export_csv", "export_json",
              "unlink_checkpoint", "unlink_partial", "done" }
  \/ pc \in { "retry_goto", "goto_raised" } /\ caller = "detail"
  \/ pc \in SavePcs /\ save_return = "dedupe"

(***************************************************************************)
(* C2.  No completed work is lost: when the process is killed inside the   *)
(* anchor loop, load_checkpoint on the files it leaves returns every       *)
(* anchor that had completed and every row accumulated.  It fails: the     *)
(* loop saves only when len(done_ids) is a multiple of 10, so the anchors  *)
(* completed since the last save are in no file.                           *)
(***************************************************************************)
C2_NoCompletedWorkLost ==
  [][ (InAnchorLoop /\ pc' = "killed") =>
        LET loaded == load_checkpoint(checkpoint_file', partial_file')
            rows   == CsvRows(all_treaties)
        IN  /\ ~loaded.raises
            /\ done_ids \subseteq loaded.done
            /\ \A r \in Range(rows) : RowCount(loaded.treaties, r) >= RowCount(rows, r)
    ]_vars

(***************************************************************************)
(* An uninterrupted crawl in which every navigation succeeds, as a         *)
(* function of the site and of --max-countries.                            *)
(***************************************************************************)
\* what get_country_list returns
Discovery(kind) ==
  LET s1 == Strategy1(SelectOptions(kind))
      s2 == Strategy2(SidebarLinks(kind))
  IN  IF s1 # << >> THEN s1 ELSE IF s2 # << >> THEN s2 ELSE Strategy3(kind, PROBE_LAST)

\* all_treaties after the anchor loop over list, starting from done and treaties
RECURSIVE CrawlAll(_, _, _)
CrawlAll(list, done, treaties) ==
  IF list = << >> THEN treaties
  ELSE IF Head(list).id \in done THEN CrawlAll(Tail(list), done, treaties)
  ELSE CrawlAll(Tail(list), done \cup { Head(list).id }, treaties \o PageTreaties(Head(list)))

\* unique after Step 5, every detail page loading
RECURSIVE EnrichAll(_, _)
EnrichAll(treaties, k) ==
  IF k > Len(treaties) THEN treaties
  ELSE LET t   == treaties[k]
           url == Get(t, "treaty_url", "")
       IN  IF ContainsTerminat(Lower(Get(t, "status", ""))) /\ url # ""
           THEN EnrichAll([ treaties EXCEPT ![k] = Put(t, "termination_type",
                                                    TerminationTypeOf(url)) ], k + 1)
           ELSE EnrichAll(treaties, k + 1)

UninterruptedExport(kind, max) ==
  LET list == Limit(Discovery(kind), max)
      all  == CrawlAll(list, {}, << >>)
  IN  JsonExport(EnrichAll(NormalizeAll(deduplicate(all)), 1))

(***************************************************************************)
(* C3.  Resume equivalence: a run resumed from a checkpoint, with every    *)
(* fetch succeeding, exports the rows (same keys, order and field values)  *)
(* that an uninterrupted crawl of the same site exports.  It fails:        *)
(* treaties_partial.csv holds only COLUMNS, which has no parties_raw, so   *)
(* the resumed run computes party_1 and party_2 of every reloaded treaty   *)
(* from the empty string.                                                  *)
(***************************************************************************)
C3_ResumeEquivalence ==
  ( /\ pc = "done" /\ resume /\ max_countries = 0
    /\ resumed_from.saved /\ resumed_from.ids # {}
    /\ failed_calls = 0 ) =>
    /\ out_json.rows = UninterruptedExport(site, max_countries)
    /\ out_csv.rows = UninterruptedExport(site, max_countries)

(***************************************************************************)
(* C9.  Save cadence: inside the anchor loop save_checkpoint is called     *)
(* exactly when the anchor just attempted completed and the number of      *)
(* completed anchors is a positive multiple of 10; after the loop exactly  *)
(* one more save is made, of every completed id and accumulated treaty.    *)
(* It fails: the test len(done_ids) % 10 == 0 runs after a failed anchor   *)
(* too, and holds for zero.                                                *)
(***************************************************************************)
C9_SaveCadence ==
  /\ [][ (pc = "cadence" /\ pc' # "killed") =>
           ( pc' = "save_open_json" <=>
               /\ goto_outcome = "ok"
               /\ Cardinality(done_ids) > 0
               /\ Cardinality(done_ids) % CHECKPOINT_EVERY = 0 ) ]_vars
  /\ [][ (pc = "loop" /\ i > Len(countries) /\ pc' # "killed") =>
           (pc' = "save_open_json" /\ save_return' = "dedupe") ]_vars
  /\ [] ( pc = "dedupe" =>
            last_saved = [ valid |-> TRUE, done |-> done_ids, treaties |-> all_treaties ] )

\* the ids of a country list
CountryIds(list) == { list[k].id : k \in DOMAIN list }

(***************************************************************************)
(* C4.  Resume skips completed anchors: no id that load_checkpoint gave as *)
(* done is navigated to or has treaties appended in this run; no id has    *)
(* its treaties appended twice in one run; and once the anchor loop is     *)
(* over, the ids navigated to are exactly those of countries that were not *)
(* loaded as done.                                                         *)
(***************************************************************************)
C4_ResumeSkipsCompleted ==
  /\ Range(nav_log) \cap resumed_from.ids = {}
  /\ Range(appended_log) \cap resumed_from.ids = {}
  /\ \A a, b \in DOMAIN appended_log : a # b => appended_log[a] # appended_log[b]
  /\ InAnchorLoop => Range(nav_log) \subseteq CountryIds(countries) \ resumed_from.ids
  /\ AfterAnchorLoop => Range(nav_log) = CountryIds(countries) \ resumed_from.ids

\* a resumed run that skipped some countries and fetched others is past its loop
C4_Witness ==
  /\ pc = "dedupe" /\ resume
  /\ CountryIds(countries) \cap resumed_from.ids # {}
  /\ nav_log # << >>
  /\ Range(appended_log) # {}

(***************************************************************************)
(* C5.  Per-anchor failure isolation: when retry_goto raises for a country *)
(* page, main catches it: the process goes on to the cadence test with     *)
(* done_ids, all_treaties and the files as they were, the failed country   *)
(* is not in done_ids, and the loop moves to the next country; Step 3      *)
(* (de-duplicate) is reached only when every country that was not loaded   *)
(* as done has been navigated to.                                          *)
(***************************************************************************)
C5_FailureIsolation ==
  /\ [][ (pc = "goto_raised" /\ caller = "country" /\ pc' # "killed") =>
           /\ pc' = "cadence"
           /\ UNCHANGED << countries, i, done_ids, all_treaties, files >> ]_vars
  /\ [] ( (InAnchorLoop /\ goto_outcome = "raised") => countries[i].id \notin done_ids )
  /\ [][ (InAnchorLoop /\ goto_outcome = "raised" /\ pc' = "loop") =>
           /\ i' = i + 1
           /\ UNCHANGED << countries, done_ids, all_treaties >> ]_vars
  /\ [] ( pc = "dedupe" =>
            CountryIds(countries) \subseteq resumed_from.ids \cup Range(nav_log) )

\* the loop went past a country whose fetch failed, and scraped a later one
C5_Witness ==
  /\ pc = "dedupe"
  /\ \E k, m \in DOMAIN nav_log :
       k < m /\ nav_log[k] \notin done_ids /\ nav_log[m] \in done_ids

(***************************************************************************)
(* C6.  Bounded retry with exponential backoff: retry_goto makes at most   *)
(* MAX_RETRIES attempts; it has slept 2^k after failed attempt k; it       *)
(* returns at the first attempt that succeeds, after attempt - 1 warnings; *)
(* when the last attempt fails it raises, with no sleep after it.          *)
(***************************************************************************)
C6_BoundedRetry ==
  /\ \A k \in DOMAIN waits : waits[k] = Pow2(k)
  /\ pc = "retry_goto" =>
       attempt \in 1 .. MAX_RETRIES /\ Len(waits) = attempt - 1 /\ goto_outcome = "none"
  /\ goto_outcome = "ok" =>
       pc # "retry_goto" /\ attempt \in 1 .. MAX_RETRIES /\ Len(waits) = attempt - 1
  /\ goto_outcome = "raised" => attempt = MAX_RETRIES /\ Len(waits) = MAX_RETRIES - 1
  /\ pc = "goto_raised" => goto_outcome = "raised"

\* the second country's page failed twice, loaded at the third attempt, and its
\* treaties are in
C6_Witness ==
  /\ pc = "cadence" /\ caller = "country" /\ goto_outcome = "ok"
  /\ i = 2 /\ waits = << 2, 4 >> /\ attempt = 3
  /\ countries[i].id \in done_ids
  /\ PageTreaties(countries[i]) # << >>

(***************************************************************************)
(* C7.  Discovery fallback order: strategy 2 runs only when strategy 1     *)
(* found nothing, strategy 3 only when strategies 1 and 2 found nothing,   *)
(* and what get_country_list returns is the result of the first strategy   *)
(* in that order that found a country, and of that strategy alone.         *)
(***************************************************************************)
C7_DiscoveryFallbackOrder ==
  LET s1 == Strategy1(SelectOptions(site))
      s2 == Strategy2(SidebarLinks(site))
  IN  /\ pc = "strategy2" => s1 = << >> /\ countries = << >>
      /\ pc = "strategy3" =>
           s1 = << >> /\ s2 = << >> /\ countries = << >>
      /\ pc = "discovered" =>
           countries = IF s1 # << >> THEN s1
                       ELSE IF s2 # << >> THEN s2
                       ELSE Strategy3(site, PROBE_LAST)

\* the select gave nothing and the sidebar links gave the countries
C7_Witness ==
  /\ pc = "discovered"
  /\ Strategy1(SelectOptions(site)) = << >>
  /\ countries # << >>
  /\ countries = Strategy2(SidebarLinks(site))

\* main before the anchor loop: load_checkpoint and get_country_list
Discovering ==
  \/ pc \in { "load_checkpoint", "strategy1", "strategy2", "strategy3", "discovered" }
  \/ pc \in { "retry_goto", "goto_raised" } /\ caller = "discover"

(***************************************************************************)
(* C8.  Discovery exhaustion is fatal: when the three strategies found no  *)
(* country the process exits with code 1, having fetched no country page   *)
(* and written or deleted no file, and goes nowhere from there; and once   *)
(* countries is not empty, a retry_goto that raises for a country page or  *)
(* a detail page does not end the process.                                 *)
(***************************************************************************)
C8_DiscoveryExhaustionFatal ==
  /\ [][ (pc = "discovered" /\ countries = << >> /\ pc' # "killed") =>
           (pc' = "aborted" /\ exit_code' = 1) ]_vars
  /\ [][ Discovering => UNCHANGED files ]_vars
  /\ [] ( pc = "aborted" =>
            /\ exit_code = 1
            /\ Discovery(site) = << >>
            /\ nav_log = << >> /\ appended_log = << >> /\ unique = << >> )
  /\ [][ pc = "aborted" => pc' = "aborted" ]_vars
  /\ [][ (pc = "goto_raised" /\ caller \in { "country", "detail" }) =>
           pc' \notin { "aborted", "crashed" } ]_vars
  /\ [] ( (pc \in { "aborted", "crashed" } /\ goto_outcome = "raised") =>
            countries = << >> )

\* the 250 candidates were probed, none was a country, and the process exited
C8_Witness == pc = "aborted" /\ exit_code = 1 /\ cid = PROBE_LAST /\ countries = << >>

(***************************************************************************)
(* C10.  Checkpoint round-trip: while the files are those a save_checkpoint*)
(* call that returned left, load_checkpoint gives the id set of that call  *)
(* and as many treaties as that call was given, in the same process or in  *)
(* one started after a kill; and with no checkpoint.json it gives the      *)
(* empty set and the empty list.                                           *)
(***************************************************************************)
C10_CheckpointRoundTrip ==
  /\ last_saved.valid =>
       LET loaded == load_checkpoint(checkpoint_file, partial_file)
       IN  /\ ~loaded.raises
           /\ loaded.done = last_saved.done
           /\ Len(loaded.treaties) = Len(last_saved.treaties)
  /\ (Discovering /\ pc # "load_checkpoint" /\ resume) =>
       /\ last_saved.valid =>
            done_ids = last_saved.done /\ Len(all_treaties) = Len(last_saved.treaties)
       /\ checkpoint_file.state = "absent" => done_ids = {} /\ all_treaties = << >>

\* a second process has loaded what the first one, killed since, had saved
C10_Witness ==
  /\ run = 2 /\ resume /\ pc = "strategy1"
  /\ last_saved.valid /\ resumed_from.saved
  /\ Cardinality(done_ids) >= 2 /\ Len(all_treaties) >= 2
  /\ Len(deduplicate(all_treaties)) < Len(all_treaties)

\* the process has ended without reaching "Done."
EndedEarly == pc \in { "killed", "crashed", "aborted" }

(***************************************************************************)
(* C11.  Checkpoint deletion only on success: checkpoint.json and          *)
(* treaties_partial.csv are deleted only by the clean-up after the export  *)
(* of this run; no run ends with one of the two deleted and the other      *)
(* left; and when a run ends before its export is complete, a checkpoint   *)
(* that a save_checkpoint call had committed is still there, both files    *)
(* whole.                                                                  *)
(***************************************************************************)
C11_DeletionOnlyOnSuccess ==
  /\ [][ ( \/ checkpoint_file.state # "absent" /\ checkpoint_file'.state = "absent"
           \/ partial_file.state # "absent" /\ partial_file'.state = "absent" ) =>
           /\ pc \in { "unlink_checkpoint", "unlink_partial" }
           /\ out_csv.state = "full" /\ out_json.state = "full" ]_vars
  /\ [] ( (EndedEarly /\ checkpoint_file.state = "absent") =>
            partial_file.state = "absent" )
  /\ [] ( (EndedEarly /\ committed) =>
            checkpoint_file.state = "full" /\ partial_file.state = "full" )

\* a country page is being fetched or its rows extracted
AnchorInFlight ==
  \/ pc = "extract"
  \/ pc \in { "retry_goto", "goto_raised" } /\ caller = "country"

\* the two checkpoint files are both absent, or both whole and of one
\* save_checkpoint call: as many rows as checkpoint.json counts treaties
WholeCheckpoint(ckpt, partial) ==
  \/ ckpt.state = "absent" /\ partial.state = "absent"
  \/ /\ ckpt.state = "full" /\ partial.state = "full"
     /\ ckpt.treaty_count = Len(partial.rows)

(***************************************************************************)
(* C12.  Cancellation safety: a process stopped from outside at any point  *)
(* of the anchor loop fetches no further country page; the checkpoint it   *)
(* leaves is that of one save_checkpoint call, the id file and the item    *)
(* file both whole (or no checkpoint when none was saved); and the country *)
(* that was being fetched is not in done_ids, has no treaties appended,    *)
(* and the stop writes nothing.                                            *)
(***************************************************************************)
C12_CancellationSafety ==
  /\ [][ pc = "killed" => (nav_log' = << >> /\ (pc' = "killed" \/ run' = run + 1)) ]_vars
  /\ [][ (InAnchorLoop /\ pc' = "killed") =>
           WholeCheckpoint(checkpoint_file', partial_file') ]_vars
  /\ [][ (AnchorInFlight /\ pc' = "killed") =>
           /\ countries[i].id \notin done_ids
           /\ countries[i].id \notin Range(appended_log)
           /\ UNCHANGED files ]_vars

(***************************************************************************)
(* deduplicate on its own: every list of at most MaxItems raw treaties of  *)
(* the site table's pages is given to deduplicate, and its result to       *)
(* deduplicate again.                                                      *)
(***************************************************************************)
\* the length of the lists deduplicate is given
MaxItems == 4

\* the raw treaties the country pages of the site table yield
RawPool ==
  UNION { Range(PageTreaties([ id |-> id, slug |-> "", name |-> "" ])) : id \in 1 .. 8 }

RawLists == UNION { [ 1 .. n -> RawPool ] : n \in 0 .. MaxItems }

DedupInit ==
  /\ site = "none"
  /\ checkpoint_file = AbsentCheckpoint /\ partial_file = AbsentCsv
  /\ out_csv = AbsentCsv /\ out_json = AbsentCsv
  /\ pc = "dedup_in" /\ exit_code = 0 /\ run = 0
  /\ resume = FALSE /\ max_countries = 0
  /\ countries = << >> /\ cid = 0 /\ done_ids = {} /\ i = 0
  /\ all_treaties \in RawLists
  /\ caller = "none" /\ attempt = 0 /\ save_return = "none"
  /\ unique = << >> /\ terminated = << >> /\ j = 0
  /\ waits = << >> /\ goto_outcome = "none"
  /\ nav_log = << >> /\ appended_log = << >> /\ resumed_from = NotResumed
  /\ failed_calls = 0 /\ last_saved = NoSave /\ committed = FALSE

\* unique = deduplicate(all_treaties)
DedupOnce ==
  /\ pc = "dedup_in"
  /\ unique' = deduplicate(all_treaties)
  /\ pc' = "dedup_once"
  /\ UNCHANGED << site, files, exit_code, run, args, crawl, save_return, terminated, j,
                  retry, history, failed_calls >>

\* unique = deduplicate(unique)
DedupTwice ==
  /\ pc = "dedup_once"
  /\ unique' = deduplicate(unique)
  /\ pc' = "dedup_twice"
  /\ UNCHANGED << site, files, exit_code, run, args, crawl, save_return, terminated, j,
                  retry, history, failed_calls >>

DedupNext == DedupOnce \/ DedupTwice

DedupSpec == DedupInit /\ [][DedupNext]_vars

(***************************************************************************)
(* C13.  The keys of the treaties deduplicate returns are pairwise         *)
(* distinct, and every treaty it returns is one of the treaties it was     *)
(* given, unaltered.                                                       *)
(***************************************************************************)
C13_DedupKeysDistinct ==
  pc = "dedup_once" =>
    /\ \A a, b \in DOMAIN unique : a # b => KeyOf(unique[a]) # KeyOf(unique[b])
    /\ \A a \in DOMAIN unique : unique[a] \in Range(all_treaties)

\* a list with two treaties of one key was given, and treaties came back
C13_Witness ==
  /\ pc = "dedup_once"
  /\ \E a, b \in DOMAIN all_treaties :
       a # b /\ all_treaties[a] # all_treaties[b]
             /\ KeyOf(all_treaties[a]) = KeyOf(all_treaties[b])
  /\ Len(unique) >= 2

(***************************************************************************)
(* C14.  deduplicate is idempotent: deduplicate of what deduplicate        *)
(* returned is the same list, the same treaties in the same order.         *)
(***************************************************************************)
C14_DedupIdempotent ==
  /\ [][ (pc = "dedup_once" /\ pc' = "dedup_twice") => unique' = unique ]_vars
  /\ [] ( pc = "dedup_twice" => unique = deduplicate(all_treaties) )

\* deduplicate ran twice on a list from which it had dropped treaties
C14_Witness ==
  /\ pc = "dedup_twice"
  /\ Len(all_treaties) = MaxItems
  /\ Len(unique) >= 1 /\ Len(unique) < Len(all_treaties)

\* the positions of x that hold the first treaty of a key that is not empty
FirstOfKey(x) ==
  { k \in DOMAIN x :
      /\ KeyOf(x[k]) # ""
      /\ \A m \in 1 .. (k - 1) : KeyOf(x[m]) # KeyOf(x[k]) }

(***************************************************************************)
(* C15.  First-write-wins in first-seen order: deduplicate returns the     *)
(* treaties at the positions of the first treaty of each non-empty key, in *)
(* the order of the input; a later treaty with a seen key changes nothing, *)
(* and a treaty with no treaty_url and no short_title is dropped.          *)
(***************************************************************************)
C15_DedupFirstWins ==
  pc = "dedup_once" =>
    LET first == SortedSeq(FirstOfKey(all_treaties))
    IN  /\ unique = [ k \in DOMAIN first |-> all_treaties[first[k]] ]
        /\ \A k \in DOMAIN unique : KeyOf(unique[k]) # ""

\* the list had a keyless treaty, and two different treaties of one key with a
\* treaty of another key between them
C15_Witness ==
  /\ pc = "dedup_once"
  /\ \E a, b, c \in DOMAIN all_treaties :
       /\ a < b /\ b < c
       /\ all_treaties[a] # all_treaties[c]
       /\ KeyOf(all_treaties[a]) = KeyOf(all_treaties[c])
       /\ KeyOf(all_treaties[b]) \notin { "", KeyOf(all_treaties[a]) }
  /\ \E d \in DOMAIN all_treaties : KeyOf(all_treaties[d]) = ""
  /\ Len(unique) = 2

\* the keys of the rows of an export are pairwise distinct and none is empty
DistinctKeys(rows) ==
  LET keys == { KeyOf(rows[k]) : k \in DOMAIN rows }
  IN  Cardinality(keys) = Len(rows) /\ "" \notin keys

(***************************************************************************)
(* C16.  Final export key uniqueness: whenever the output CSV or the       *)
(* output JSON has been written, by a fresh or a resumed run, the keys of  *)
(* its rows are pairwise distinct and none is empty: a treaty found on two *)
(* country pages with one treaty_url is exported once, and a treaty with   *)
(* no treaty_url and no short_title is not exported, the run going on to   *)
(* "Done.".                                                                *)
(***************************************************************************)
C16_ExportKeysUnique ==
  /\ out_csv.state = "full" => DistinctKeys(out_csv.rows)
  /\ out_json.state = "full" => DistinctKeys(out_json.rows)
  /\ pc = "done" =>
       /\ out_csv.state = "full" /\ out_json.state = "full"
       /\ \A t \in Range(all_treaties) :
            KeyOf(t) # "" =>
              Cardinality({ k \in DOMAIN out_json.rows :
                              KeyOf(out_json.rows[k]) = KeyOf(t) }) = 1

\* a resumed run is done whose treaties held one treaty_url from two country
\* pages and a treaty with no key
C16_Witness ==
  /\ pc = "done" /\ resume /\ resumed_from.ids # {} /\ appended_log # << >>
  /\ \E a, b \in DOMAIN all_treaties :
       /\ a # b /\ KeyOf(all_treaties[a]) = KeyOf(all_treaties[b])
       /\ Get(all_treaties[a], "treaty_url", "") # ""
       /\ Get(all_treaties[a], "source_country", "") # Get(all_treaties[b], "source_country", "")
  /\ \E a \in DOMAIN all_treaties : KeyOf(all_treaties[a]) = ""
  /\ out_json.rows # << >>

\* Step 5 of main: the enrichment loop and scrape_termination_type
Enriching ==
  \/ pc \in { "enrich", "detail_parse" }
  \/ pc \in { "retry_goto", "goto_raised" } /\ caller = "detail"

(***************************************************************************)
(* C17.  Enrichment is best-effort: when retry_goto raises for a detail    *)
(* page, or reading the page raises, the treaty's termination_type is ""   *)
(* and the loop goes on to the next terminated treaty; Step 5 is left only *)
(* for the export.                                                         *)
(***************************************************************************)
C17_EnrichmentBestEffort ==
  /\ [][ (pc = "goto_raised" /\ caller = "detail" /\ pc' # "killed") =>
           /\ pc' = "enrich" /\ j' = j + 1
           /\ unique' = SetTerminationType("") ]_vars
  /\ [][ (pc = "detail_parse" /\ pc' # "killed") =>
           /\ pc' = "enrich" /\ j' = j + 1
           /\ \A k \in DOMAIN unique' : "termination_type" \in DOMAIN unique'[k] ]_vars
  /\ [][ (Enriching /\ ~Enriching' /\ pc' # "killed") => pc' = "export_csv" ]_vars

(***************************************************************************)
(* C18.  The list returned by get_country_list holds no id twice,          *)
(* whichever strategy produced it.                                         *)
(***************************************************************************)
C18_AnchorIdsUnique ==
  pc = "discovered" =>
    \A a, b \in DOMAIN countries : a # b => countries[a].id # countries[b].id

(***************************************************************************)
(* C19.  A row whose cells carry data-index attributes is read through     *)
(* cell_map under the 0-based and the 1-based numbering of the columns     *)
(* [ordinal, title, type, status, parties, signature, entry into force,    *)
(* termination]: column n is cell_map[n] when that text is not empty, and  *)
(* cell_map[n + 1] otherwise.  Stated of the treaties that one call of     *)
(* scrape_country_treaties adds to all_treaties.                           *)
(***************************************************************************)
C19_IndexedPreference ==
  [][ (pc = "extract" /\ pc' = "cadence") =>
        LET rows  == PageRows(countries[i].id).rows
            added == SubSeq(all_treaties', Len(all_treaties) + 1, Len(all_treaties'))
            zero_based(cell_map, n) == Get(cell_map, ToString(n), "")
            one_based(cell_map, n)  == Get(cell_map, ToString(n + 1), "")
            column(cell_map, n) ==
              IF zero_based(cell_map, n) # "" THEN zero_based(cell_map, n)
              ELSE one_based(cell_map, n)
        IN  \A r \in DOMAIN rows :
              LET cell_map == CellMap(rows[r].cells)
              IN  (Len(rows[r].cells) >= MIN_CELLS /\ DOMAIN cell_map # {}) =>
                    \E k \in DOMAIN added :
                      /\ added[k].treaty_url = rows[r].href
                      /\ added[k].short_title = column(cell_map, 1)
                      /\ added[k].treaty_type = NormalizeType(column(cell_map, 2))
                      /\ added[k].status = column(cell_map, 3)
                      /\ added[k].parties_raw = column(cell_map, 4)
                      /\ added[k].date_of_signature = column(cell_map, 5)
                      /\ added[k].date_of_entry_into_force = column(cell_map, 6)
                      /\ added[k].date_of_termination = column(cell_map, 7) ]_vars

(***************************************************************************)
(* C20.  A country id enters done_ids exactly when scrape_country_treaties *)
(* returned for it, a page whose table never appears (no treaties)         *)
(* included; when retry_goto raised for a country its id is not added, and *)
(* every checkpoint.json that is written lists exactly done_ids, so the id *)
(* is not in it; a run started with --resume navigates to every listed     *)
(* country that the loaded checkpoint does not give as done.               *)
(***************************************************************************)
C20_DoneExactlyOnReturn ==
  /\ [][ (pc = "extract" /\ pc' # "killed") =>
           /\ done_ids' = done_ids \cup { countries[i].id }
           /\ all_treaties' = all_treaties \o PageTreaties(countries[i]) ]_vars
  /\ [][ (done_ids' # done_ids /\ run' = run /\ pc # "load_checkpoint" /\ pc' # "killed") =>
           pc = "extract" /\ goto_outcome = "ok" ]_vars
  /\ [][ (pc = "goto_raised" /\ caller = "country") =>
           countries[i].id \notin done_ids' ]_vars
  /\ [] ( (InAnchorLoop \/ AfterAnchorLoop) =>
            done_ids = resumed_from.ids \cup Range(appended_log) )
  /\ [][ (checkpoint_file' # checkpoint_file /\ checkpoint_file'.state = "full") =>
           Range(checkpoint_file'.done_country_ids) = done_ids ]_vars
  /\ [] ( (resume /\ AfterAnchorLoop) =>
            CountryIds(countries) \ resumed_from.ids \subseteq Range(nav_log) )

\* a resumed run whose checkpoint gives a later country as done and an earlier one
\* not (its fetch had failed) has scraped the earlier one; country 3, whose page
\* has no table, is done
C20_Witness ==
  /\ resume /\ InAnchorLoop
  /\ \E a, b \in DOMAIN countries :
       /\ a < b
       /\ countries[b].id \in resumed_from.ids
       /\ countries[a].id \notin resumed_from.ids
       /\ countries[a].id \in Range(appended_log)
  /\ 3 \in done_ids /\ PageTreaties([ id |-> 3, slug |-> "", name |-> "" ]) = << >>

(***************************************************************************)
(* Progress.  main is one coroutine run by asyncio.run: when every await   *)
(* returns or raises, the statement after it is executed.  Nothing makes   *)
(* anyone start the script again, and nothing makes a kill happen.         *)
(***************************************************************************)
\* a step of the running process itself: neither a kill nor a new start
ProgramStep == Next /\ pc' # "killed" /\ run' = run

LiveSpec == Init /\ [][Next]_vars /\ WF_vars(ProgramStep)

\* the process has ended by "Done." or by the sys.exit(1) of the discovery
EndedDoneOrAbort == pc \in { "done", "aborted" }

(***************************************************************************)
(* C21.  The pipeline terminates: the probe loop stays within its 250      *)
(* candidates, the anchor loop and the enrichment loop only move forward   *)
(* through their lists, one navigation per element at most, and a process  *)
(* that is not killed stops only at "Done." or at the discovery abort, and *)
(* does reach one of the two.                                              *)
(***************************************************************************)
C21_PipelineTerminates ==
  /\ [] ( cid <= PROBE_LAST /\ attempt <= MAX_RETRIES )
  /\ [][ (run' = run /\ pc' # "killed") => (i' >= i /\ j' >= j) ]_vars
  /\ [] ( (InAnchorLoop \/ AfterAnchorLoop) => Len(nav_log) <= i /\ i <= Len(countries) + 1 )
  /\ [] ( pc \in { "enrich", "detail_parse" } => j <= Len(terminated) + 1 )
  /\ [][ (Running /\ ~Running' /\ pc' # "killed") => EndedDoneOrAbort' ]_vars
  /\ Running ~> (EndedDoneOrAbort \/ pc = "killed")

====
